---- MODULE Spec2Model ----
(***************************************************************************)
(* O-ring recognition front end (src/src/App copy.jsx, the persisting      *)
(* variant of the App component).                                           *)
(*                                                                         *)
(* Number representation.  Tensor values (cx, cy, w, h, objectness, class  *)
(* scores) are integers counting tenths: k stands for k/10.  Hence          *)
(*   - width, height of a detection are in tenths,                          *)
(*   - x1, y1, x2, y2 are in twentieths (x1 = cx - w/2 = (2cx - w)/20),      *)
(*   - confidence (a product of two tenths) is in hundredths,               *)
(*   - referenceSize is in tenths of a millimetre.                          *)
(* Results of a JavaScript division are kept exactly, as normalised         *)
(* fractions, or as NaN / Infinity where the division yields them.          *)
(***************************************************************************)
EXTENDS Integers, Sequences, FiniteSets, TLC

VARIABLES
    \* ---- React state of App (App copy.jsx:21-38) ----
    status, error, boxes, calibrationMode, referenceSize,
    calibrationComplete, pixelsPerMM, selectedReferenceBox,
    \* ---- object identity of selectedReferenceBox: the index in boxes of
    \*      the object it refers to, 0 when it is null or an object that is
    \*      not in the current boxes array ----
    selectedIndex,
    \* ---- localStorage entry 'oRingCalibration' ----
    localStorage,
    \* ---- what the last handler did (observation of the last step) ----
    lastOp,
    \* ---- one run of the decode / suppress pipeline on a given tensor ----
    data, dims, parsedBoxes, nmsBoxes, pc,
    \* ---- one call of calculatePhysicalSize: arguments and result ----
    sizeBox, sizePpm, sizeResult,
    \* ---- refs of App and locals of the render effect ----
    isProcessingRef, videoReadyRef, cameraStarting,
    loopOn, lastInferenceTime, lastBoxes,
    \* ---- performance.now(), and its value when the latest 'infer' was
    \*      posted (observation; -1 before the first) ----
    now, postedAt,
    \* ---- messages posted to the worker and to the main thread ----
    toWorker, toMain,
    \* ---- onnxWorker.js: session, processing, the loadModel handler at its
    \*      await, and the number of session.run calls not yet settled ----
    session, processing, loading, running

appVars == <<status, error, boxes, calibrationMode, referenceSize,
             calibrationComplete, pixelsPerMM, selectedReferenceBox,
             selectedIndex, localStorage, lastOp>>
pipeVars == <<data, dims, parsedBoxes, nmsBoxes, pc>>
sizeVars == <<sizeBox, sizePpm, sizeResult>>
mainVars == <<isProcessingRef, videoReadyRef, cameraStarting,
              loopOn, lastInferenceTime, lastBoxes>>
workerVars == <<session, processing, loading, running>>
protocolVars == <<mainVars, now, postedAt, toWorker, toMain, workerVars>>
pureVars == <<pipeVars, sizeVars, protocolVars>>
vars == <<status, error, boxes, calibrationMode, referenceSize,
          calibrationComplete, pixelsPerMM, selectedReferenceBox,
          selectedIndex, localStorage, lastOp,
          data, dims, parsedBoxes, nmsBoxes, pc,
          sizeBox, sizePpm, sizeResult,
          isProcessingRef, videoReadyRef, cameraStarting,
          loopOn, lastInferenceTime, lastBoxes,
          now, postedAt, toWorker, toMain,
          session, processing, loading, running>>

----------------------------------------------------------------------------
(* Program constants *)

MODEL_INPUT_SIZE == 640
classNames == <<"BLOCK", "INNER", "OK", "OUTER", "SCAR", "TEAR">>
\* NMS_THRESHOLD = 0.5, as the fraction NMS_THRESHOLD_N / NMS_THRESHOLD_D
NMS_THRESHOLD_N == 1
NMS_THRESHOLD_D == 2
\* CONFIDENCE_THRESHOLD = 0.4, in hundredths
CONFIDENCE_THRESHOLD == 40
INFERENCE_THROTTLE_MS == 500

----------------------------------------------------------------------------
(* JavaScript values *)

Null == [k |-> "null"]
Undefined == [k |-> "undefined"]
Str(msg) == [k |-> "string", v |-> msg]
NaN == [k |-> "nan"]
PosInf == [k |-> "inf", s |-> 1]
NegInf == [k |-> "inf", s |-> -1]

Abs(x) == IF x < 0 THEN -x ELSE x
Max(a, b) == IF a >= b THEN a ELSE b
Min(a, b) == IF a <= b THEN a ELSE b

RECURSIVE GCD(_, _)
GCD(a, b) == IF b = 0 THEN a ELSE GCD(b, a % b)

\* the finite number n/d, normalised (d > 0, lowest terms)
Num(n, d) ==
    LET g == GCD(Abs(n), Abs(d))
        sg == IF d < 0 THEN -1 ELSE 1
    IN [k |-> "num", n |-> sg * (n \div g), d |-> sg * (d \div g)]

\* a / b in JavaScript, for a and b counted in the same unit
JSDiv(a, b) ==
    IF b = 0
    THEN IF a = 0 THEN NaN ELSE IF a > 0 THEN PosInf ELSE NegInf
    ELSE Num(a, b)

\* v > n/d in JavaScript (d > 0); every comparison with NaN is false
JSGreater(v, n, d) ==
    CASE v.k = "nan" -> FALSE
      [] v.k = "inf" -> v.s = 1
      [] OTHER       -> v.n * d > n * v.d

\* v <= n/d in JavaScript (d > 0)
JSLessEq(v, n, d) ==
    CASE v.k = "nan" -> FALSE
      [] v.k = "inf" -> v.s = -1
      [] OTHER       -> v.n * d <= n * v.d

isNaN(v) == v.k = "nan"

\* a / b in JavaScript, for two numbers
JSDivide(a, b) ==
    CASE a.k = "nan" \/ b.k = "nan" -> NaN
      [] a.k = "inf" /\ b.k = "inf" -> NaN
      [] a.k = "inf" -> IF b.n >= 0 THEN a ELSE [k |-> "inf", s |-> -(a.s)]
      [] b.k = "inf" -> Num(0, 1)
      [] OTHER -> IF b.n = 0
                  THEN JSDiv(a.n, 0)
                  ELSE Num(a.n * b.d, a.d * b.n)

\* !v for a number or null: null, 0 and NaN are falsy
Falsy(v) ==
    CASE v.k = "null" -> TRUE
      [] v.k = "nan"  -> TRUE
      [] v.k = "num"  -> v.n = 0
      [] OTHER        -> FALSE

----------------------------------------------------------------------------
(* Typed arrays (0-based) *)

\* a[i]: undefined outside the array
At(a, i) == IF i >= 0 /\ i < Len(a) THEN a[i + 1] ELSE Undefined

\* TypedArray.prototype.subarray(begin, end): both ends clamped to the array
subarray(a, begin, end) ==
    LET b == Min(Max(begin, 0), Len(a))
        e == Min(Max(end, 0), Len(a))
    IN IF e <= b THEN <<>> ELSE SubSeq(a, b + 1, e)

\* Math.max(...a): -Infinity for no argument
RECURSIVE MathMax(_)
MathMax(a) ==
    IF a = <<>> THEN NegInf
    ELSE IF Tail(a) = <<>> THEN Head(a)
    ELSE Max(Head(a), MathMax(Tail(a)))

\* a.indexOf(v): the first index holding v, -1 when there is none
RECURSIVE indexOfFrom(_, _, _)
indexOfFrom(a, v, i) ==
    IF i >= Len(a) THEN -1
    ELSE IF a[i + 1] = v THEN i ELSE indexOfFrom(a, v, i + 1)

indexOf(a, v) == indexOfFrom(a, v, 0)

----------------------------------------------------------------------------
(* parseYOLOv5Output (App copy.jsx:63-98) *)

\* labelOf with the last name of the list for a classId past its end
labelOf_LastName(classId) ==
    IF classId < 0 THEN "unknown"
    ELSE IF classId < Len(classNames) THEN classNames[classId + 1]
    ELSE classNames[Len(classNames)]

\* classNames[classId] || 'unknown'
labelOf(classId) ==
    IF classId >= 0 /\ classId < Len(classNames)
    THEN classNames[classId + 1] ELSE "unknown"

\* parseRow with classConfs.lastIndexOf for indexOf
parseRow_LastIndex(dat, num_attrs, i) ==
    LET offset == i * num_attrs
        slice == subarray(dat, offset, offset + num_attrs)
        classConfs == subarray(slice, 5, Len(slice))
        classId == IF classConfs = <<>> THEN -1
                   ELSE CHOOSE j \in 0..(Len(classConfs) - 1) :
                          /\ classConfs[j + 1] = MathMax(classConfs)
                          /\ \A l \in (j + 1)..(Len(classConfs) - 1) :
                                classConfs[l + 1] # MathMax(classConfs)
        isNumber == Len(slice) > 4 /\ classId >= 0
        totalConf == IF isNumber THEN At(slice, 4) * At(classConfs, classId) ELSE NaN
    IN IF isNumber /\ totalConf > CONFIDENCE_THRESHOLD
       THEN << [x1 |-> 2 * At(slice, 0) - At(slice, 2),
                y1 |-> 2 * At(slice, 1) - At(slice, 3),
                x2 |-> 2 * At(slice, 0) + At(slice, 2),
                y2 |-> 2 * At(slice, 1) + At(slice, 3),
                width |-> At(slice, 2), height |-> At(slice, 3),
                label |-> labelOf(classId),
                confidence |-> totalConf,
                classId |-> classId] >>
       ELSE <<>>

\* parseRow with x - w and y - h for x - w / 2 and y - h / 2
parseRow_NoHalf(dat, num_attrs, i) ==
    LET offset == i * num_attrs
        slice == subarray(dat, offset, offset + num_attrs)
        classConfs == subarray(slice, 5, Len(slice))
        classId == IF classConfs = <<>> THEN -1
                   ELSE indexOf(classConfs, MathMax(classConfs))
        isNumber == Len(slice) > 4 /\ classId >= 0
        totalConf == IF isNumber THEN At(slice, 4) * At(classConfs, classId) ELSE NaN
    IN IF isNumber /\ totalConf > CONFIDENCE_THRESHOLD
       THEN << [x1 |-> 2 * At(slice, 0) - 2 * At(slice, 2),
                y1 |-> 2 * At(slice, 1) - 2 * At(slice, 3),
                x2 |-> 2 * At(slice, 0) + At(slice, 2),
                y2 |-> 2 * At(slice, 1) + At(slice, 3),
                width |-> At(slice, 2), height |-> At(slice, 3),
                label |-> labelOf(classId),
                confidence |-> totalConf,
                classId |-> classId] >>
       ELSE <<>>

\* parseRow with the threshold test weakened to >=
parseRow_NotStrict(dat, num_attrs, i) ==
    LET offset == i * num_attrs
        slice == subarray(dat, offset, offset + num_attrs)
        classConfs == subarray(slice, 5, Len(slice))
        classId == IF classConfs = <<>> THEN -1
                   ELSE indexOf(classConfs, MathMax(classConfs))
        isNumber == Len(slice) > 4 /\ classId >= 0
        totalConf == IF isNumber THEN At(slice, 4) * At(classConfs, classId) ELSE NaN
    IN IF isNumber /\ totalConf >= CONFIDENCE_THRESHOLD
       THEN << [x1 |-> 2 * At(slice, 0) - At(slice, 2),
                y1 |-> 2 * At(slice, 1) - At(slice, 3),
                x2 |-> 2 * At(slice, 0) + At(slice, 2),
                y2 |-> 2 * At(slice, 1) + At(slice, 3),
                width |-> At(slice, 2), height |-> At(slice, 3),
                label |-> labelOf(classId),
                confidence |-> totalConf,
                classId |-> classId] >>
       ELSE <<>>

\* one iteration of the loop over the rows: the detections row i adds
parseRow(dat, num_attrs, i) ==
    LET offset == i * num_attrs
        slice == subarray(dat, offset, offset + num_attrs)
        x == At(slice, 0)
        y == At(slice, 1)
        w == At(slice, 2)
        h == At(slice, 3)
        conf == At(slice, 4)
        classConfs == subarray(slice, 5, Len(slice))
        \* no class score: Math.max() is -Infinity, which indexOf does not find
        classId == IF classConfs = <<>> THEN -1
                   ELSE indexOf(classConfs, MathMax(classConfs))
        classConf == At(classConfs, classId)
        \* conf or classConf undefined: the product is NaN
        isNumber == Len(slice) > 4 /\ classId >= 0
        totalConf == IF isNumber THEN conf * classConf ELSE NaN
    IN IF isNumber /\ totalConf > CONFIDENCE_THRESHOLD
       THEN << [x1 |-> 2 * x - w, y1 |-> 2 * y - h,
                x2 |-> 2 * x + w, y2 |-> 2 * y + h,
                width |-> w, height |-> h,
                label |-> labelOf(classId),
                confidence |-> totalConf,
                classId |-> classId] >>
       ELSE <<>>

RECURSIVE parseRows(_, _, _, _)
parseRows(dat, num_boxes, num_attrs, i) ==
    IF i < num_boxes
    THEN parseRow(dat, num_attrs, i) \o parseRows(dat, num_boxes, num_attrs, i + 1)
    ELSE <<>>

\* parseYOLOv5Output with the loop starting at i = 1
parseYOLOv5Output_FromOne(dat, dms) ==
    IF Len(dms) < 3 THEN <<>>
    ELSE parseRows(dat, At(dms, 1), At(dms, 2), 1)

\* const [, num_boxes, num_attrs] = dims; a missing entry is undefined, and
\* i < undefined is false, i * undefined is NaN (subarray(NaN, NaN) is empty)
parseYOLOv5Output(dat, dms) ==
    LET num_boxes == At(dms, 1)
        num_attrs == At(dms, 2)
    IN IF Len(dms) < 2 THEN <<>>
       ELSE IF Len(dms) < 3 THEN <<>>
       ELSE parseRows(dat, num_boxes, num_attrs, 0)

----------------------------------------------------------------------------
(* calculateIoU (App copy.jsx:121-133) *)

\* calculateIoU dividing by area1 for union
calculateIoU_OverArea1(box1, box2) ==
    LET x1 == Max(box1.x1, box2.x1)
        y1 == Max(box1.y1, box2.y1)
        x2 == Min(box1.x2, box2.x2)
        y2 == Min(box1.y2, box2.y2)
        intersection == Max(0, x2 - x1) * Max(0, y2 - y1)
        area1 == (box1.x2 - box1.x1) * (box1.y2 - box1.y1)
    IN JSDiv(intersection, area1)

calculateIoU(box1, box2) ==
    LET x1 == Max(box1.x1, box2.x1)
        y1 == Max(box1.y1, box2.y1)
        x2 == Min(box1.x2, box2.x2)
        y2 == Min(box1.y2, box2.y2)
        intersection == Max(0, x2 - x1) * Max(0, y2 - y1)
        area1 == (box1.x2 - box1.x1) * (box1.y2 - box1.y1)
        area2 == (box2.x2 - box2.x1) * (box2.y2 - box2.y1)
        union == area1 + area2 - intersection
    IN JSDiv(intersection, union)

----------------------------------------------------------------------------
(* nonMaxSuppression (App copy.jsx:100-119) *)

\* [...boxes].sort((a, b) => b.confidence - a.confidence): Array.prototype.sort
\* is stable, so equal confidences keep their input order
RECURSIVE insertByConfidence(_, _)
insertByConfidence(b, sorted) ==
    IF sorted = <<>> THEN <<b>>
    ELSE IF Head(sorted).confidence >= b.confidence
         THEN <<Head(sorted)>> \o insertByConfidence(b, Tail(sorted))
         ELSE <<b>> \o sorted

RECURSIVE sortByConfidence(_)
sortByConfidence(bs) ==
    IF bs = <<>> THEN <<>>
    ELSE LET n == Len(bs)
         IN insertByConfidence(bs[n], sortByConfidence(SubSeq(bs, 1, n - 1)))

\* the test of the inner loop without the classId comparison
suppresses_AnyClass(currentBox, other) ==
    JSGreater(calculateIoU(currentBox, other), NMS_THRESHOLD_N, NMS_THRESHOLD_D)

\* the test of the inner loop with iou > 0 for iou > NMS_THRESHOLD
suppresses_AnyOverlap(currentBox, other) ==
    /\ other.classId = currentBox.classId
    /\ JSGreater(calculateIoU(currentBox, other), 0, 1)

\* the test of the inner loop: sortedBoxes[i] is spliced out
suppresses(currentBox, other) ==
    /\ other.classId = currentBox.classId
    /\ JSGreater(calculateIoU(currentBox, other), NMS_THRESHOLD_N, NMS_THRESHOLD_D)

\* the inner for loop: what is left of sortedBoxes after the splices
RECURSIVE removeSuppressed(_, _)
removeSuppressed(currentBox, sortedBoxes) ==
    IF sortedBoxes = <<>> THEN <<>>
    ELSE LET rest == removeSuppressed(currentBox, Tail(sortedBoxes))
         IN IF suppresses(currentBox, Head(sortedBoxes))
            THEN rest ELSE <<Head(sortedBoxes)>> \o rest

\* the while loop
RECURSIVE nmsLoop(_)
nmsLoop(sortedBoxes) ==
    IF sortedBoxes = <<>> THEN <<>>
    ELSE LET currentBox == Head(sortedBoxes)
         IN <<currentBox>> \o nmsLoop(removeSuppressed(currentBox, Tail(sortedBoxes)))

\* boxes.sort(...) for [...boxes].sort(...): sortedBoxes is the caller's
\* array, which the while loop shifts and splices until it is empty
inputAfterSuppression_InPlace(bs) == <<>>

\* the caller's array after nonMaxSuppression(boxes): sort, shift and splice
\* act on the copy [...boxes], and no statement writes a field of a detection
inputAfterSuppression(bs) == bs

\* nonMaxSuppression with selectedBoxes.unshift(currentBox) for push
nonMaxSuppression_Unshift(bs) ==
    LET out == nmsLoop(sortByConfidence(bs))
    IN [k \in 1..Len(out) |-> out[Len(out) + 1 - k]]

\* nonMaxSuppression with selectedBoxes = [...boxes] for []
nonMaxSuppression_StartsFromInput(bs) == bs \o nmsLoop(sortByConfidence(bs))

nonMaxSuppression(bs) == nmsLoop(sortByConfidence(bs))

----------------------------------------------------------------------------
(* Bounds and input domains *)

\* rows of a tensor given to the pipeline specification
MaxBoxes == 3
\* rows of an inference result delivered to the App
MaxFrameBoxes == 2

\* number of attributes of a row: 5 + the six class scores
NumAttrs == 5 + Len(classNames)

Row(cx, cy, w, h, obj, cls) == <<cx, cy, w, h, obj>> \o cls

\* class score vectors: a tie between OK and OUTER, and a single SCAR score
TieOK == <<0, 0, 10, 10, 0, 0>>
OnlySCAR == <<0, 0, 0, 0, 8, 0>>

\* <<cx, w>>: boxes [4,12], [6,14], [8,16], [8,12] and the zero-area [10,10]
\* (in twentieths), with IoU 1/3, 1/2 (the threshold itself), 3/5, 1 and 0/0
Geometries == { <<4, 4>>, <<5, 4>>, <<6, 4>>, <<5, 2>>, <<5, 0>> }

\* <<objectness, class scores>>: products 100 and 50 (OK), 80 and 40, the
\* threshold itself (SCAR)
Scores == { <<10, TieOK>>, <<5, TieOK>>,
            <<10, OnlySCAR>>, <<5, OnlySCAR>> }

Rows == { Row(g[1], 5, g[2], 2, sc[1], sc[2]) : g \in Geometries, sc \in Scores }

\* rows of the inference results: a SCAR box of 0.4 x 0.2 and an OK box of
\* 0.1 x 0.1 with another centre
FrameRows == { Row(4, 5, 4, 2, 10, OnlySCAR),
               Row(5, 5, 1, 1, 8, TieOK) }

RECURSIVE Flatten(_)
Flatten(rows) == IF rows = <<>> THEN <<>> ELSE Head(rows) \o Flatten(Tail(rows))

\* the tensors of n rows drawn from rs, with their shape [1, n, NumAttrs]
Tensors(rs, maxRows) ==
    { [data |-> Flatten(rows), dims |-> <<1, Len(rows), NumAttrs>>] :
        rows \in UNION { [1..n -> rs] : n \in 0..maxRows } }

\* what the user can type into the reference size field
InputStrings == {"", "abc", "0", "-5", "0.5", "10", "20"}

\* canvas clicks (clientX, clientY relative to the canvas, in canvas pixels)
Clicks == { <<0, 0>>, <<1, 0>>, <<60, 60>> }

\* video size the canvas takes over (canvas.width, canvas.height)
CanvasSizes == { <<640, 480>> }

----------------------------------------------------------------------------
(* The pipeline on one tensor: worker.onmessage 'inference' (App copy.jsx   *)
(* 275-279) run on a tensor chosen from Tensors(Rows, MaxBoxes)             *)

\* the worker, the camera and the render loop are not observed
ProtocolIdle ==
    /\ isProcessingRef = FALSE
    /\ videoReadyRef = FALSE
    /\ cameraStarting = FALSE
    /\ loopOn = FALSE
    /\ lastInferenceTime = 0
    /\ lastBoxes = <<>>
    /\ now = 0
    /\ postedAt = -1
    /\ toWorker = <<>>
    /\ toMain = <<>>
    /\ session = FALSE
    /\ processing = FALSE
    /\ loading = FALSE
    /\ running = 0

\* no call of calculatePhysicalSize is being observed
SizeIdle ==
    /\ sizeBox = Null
    /\ sizePpm = Null
    /\ sizeResult = Str("idle")

AppInitial ==
    /\ status = "loading"
    /\ error = Null
    /\ boxes = <<>>
    /\ calibrationMode = FALSE
    /\ referenceSize = Num(10, 1)
    /\ calibrationComplete = FALSE
    /\ pixelsPerMM = Null
    /\ selectedReferenceBox = Null
    /\ selectedIndex = 0
    /\ localStorage = Null
    /\ lastOp = [op |-> "init", arg |-> "", ok |-> TRUE]

InitPipeline ==
    /\ AppInitial
    /\ \E t \in Tensors(Rows, MaxBoxes) : data = t.data /\ dims = t.dims
    /\ parsedBoxes = <<>>
    /\ nmsBoxes = <<>>
    /\ pc = "start"
    /\ SizeIdle
    /\ ProtocolIdle

Parse ==
    /\ pc = "start"
    /\ parsedBoxes' = parseYOLOv5Output(data, dims)
    /\ pc' = "parsed"
    /\ UNCHANGED <<data, dims, nmsBoxes>>
    /\ UNCHANGED sizeVars
    /\ UNCHANGED protocolVars
    /\ UNCHANGED appVars

Suppress ==
    /\ pc = "parsed"
    /\ nmsBoxes' = nonMaxSuppression(parsedBoxes)
    /\ parsedBoxes' = inputAfterSuppression(parsedBoxes)
    /\ pc' = "done"
    /\ UNCHANGED <<data, dims>>
    /\ UNCHANGED sizeVars
    /\ UNCHANGED protocolVars
    /\ UNCHANGED appVars

NextPipeline == Parse \/ Suppress

SpecPipeline == InitPipeline /\ [][NextPipeline]_vars

(***************************************************************************)
(* One call of parseYOLOv5Output on a tensor with a shape that fits it or  *)
(* does not                                                                *)
(***************************************************************************)

\* most rows of a decoded tensor
MaxDecodeRows == 2

\* rows: one argmax (OK, product 81), a tie of OK and OUTER (100), a
\* zero-width row (50), SCAR at the threshold (40) and above (80), a tie of
\* BLOCK and TEAR (42) and a row of zeros
DecodeRows ==
    { Row(5, 5, 2, 2, 9, <<0, 0, 9, 0, 0, 0>>),
      Row(4, 5, 4, 2, 10, TieOK),
      Row(5, 5, 0, 2, 5, TieOK),
      Row(6, 5, 4, 2, 5, OnlySCAR),
      Row(5, 5, 2, 2, 10, OnlySCAR),
      Row(3, 4, 2, 4, 6, <<7, 0, 0, 0, 0, 7>>),
      Row(5, 5, 2, 2, 0, <<0, 0, 0, 0, 0, 0>>),
      Row(5, 5, 2, 2, 10, <<0, 0, 3, 0, 0, 0>>) }

\* the shapes a tensor of n rows is decoded with: its own, two of the wrong
\* arity, numAttrs one too small and one too large, one row too many, and a
\* fourth dimension
ShapesFor(n) ==
    { <<1, n, NumAttrs>>, <<1, n>>, <<n, NumAttrs>>, <<1, n, NumAttrs - 1>>,
      <<1, n, NumAttrs + 1>>, <<1, n + 1, NumAttrs>>, <<1, n, NumAttrs, 1>> }

InitDecode ==
    /\ AppInitial
    /\ \E t \in Tensors(DecodeRows, MaxDecodeRows) :
          /\ data = t.data
          /\ dims \in ShapesFor(t.dims[2])
    /\ parsedBoxes = <<>>
    /\ nmsBoxes = <<>>
    /\ pc = "start"
    /\ SizeIdle
    /\ ProtocolIdle

NextDecode == Parse

SpecDecode == InitDecode /\ [][NextDecode]_vars

----------------------------------------------------------------------------
(* Properties of the pipeline *)

\* objectness times the largest class score of row i (0-based) of the tensor
RowProduct(i) ==
    LET base == i * NumAttrs
        cls == SubSeq(data, base + 6, base + NumAttrs)
    IN data[base + 5] * MathMax(cls)

RowIndexes == 0 .. (dims[2] - 1)

\* C1: any two distinct detections in the output of nonMaxSuppression that
\* share a classId have intersection-over-union <= 0.5 with each other.
C1_SameClassIoUAtMostThreshold ==
    pc = "done" =>
        \A i, j \in 1..Len(nmsBoxes) :
            (i # j /\ nmsBoxes[i].classId = nmsBoxes[j].classId)
                => JSLessEq(calculateIoU(nmsBoxes[i], nmsBoxes[j]),
                            NMS_THRESHOLD_N, NMS_THRESHOLD_D)

\* C2: every detection emitted by parseYOLOv5Output has a confidence strictly
\* above 0.4 and is the product of a row whose product is above 0.4; a row
\* whose product is 0.4 or lower adds no detection.
C2_EmittedConfidenceAboveThreshold ==
    pc # "start" =>
        /\ \A k \in 1..Len(parsedBoxes) :
              /\ parsedBoxes[k].confidence > CONFIDENCE_THRESHOLD
              /\ \E i \in RowIndexes :
                    /\ RowProduct(i) = parsedBoxes[k].confidence
                    /\ RowProduct(i) > CONFIDENCE_THRESHOLD
        /\ Len(parsedBoxes) <=
              Cardinality({ i \in RowIndexes : RowProduct(i) > CONFIDENCE_THRESHOLD })

\* C2 witness: a tensor holding a row at the threshold and a row above it
\* has been decoded
C2_Witness ==
    /\ pc = "parsed"
    /\ \E i \in RowIndexes : RowProduct(i) = CONFIDENCE_THRESHOLD
    /\ \E i \in RowIndexes : RowProduct(i) > CONFIDENCE_THRESHOLD
    /\ Len(parsedBoxes) = 1

----------------------------------------------------------------------------
(* The App component: state, construction and handlers *)

\* parseFloat(e.target.value) of the reference size field
parseFloat(str) ==
    CASE str = "0"   -> Num(0, 1)
      [] str = "-5"  -> Num(-5, 1)
      [] str = "0.5" -> Num(1, 2)
      [] str = "10"  -> Num(10, 1)
      [] str = "20"  -> Num(20, 1)
      [] OTHER       -> NaN

\* v || 0 for a number
OrZero(v) == IF Falsy(v) THEN Num(0, 1) ELSE v

\* validReferenceSize without the > 0 test
validReferenceSize_NotNaNOnly(v) == ~isNaN(v)

\* referenceSize > 0 && !isNaN(referenceSize)
validReferenceSize(v) == JSGreater(v, 0, 1) /\ ~isNaN(v)

\* a number after JSON.stringify and JSON.parse: NaN and Infinity become null
JSONNumber(v) == IF v.k = "num" THEN v ELSE Null

\* diameterPx taking the width alone for the diameter
diameterPx_WidthOnly(box) == Num(box.width * MODEL_INPUT_SIZE, 10)

\* (box.width * MODEL_INPUT_SIZE + box.height * MODEL_INPUT_SIZE) / 2, with
\* width and height counted in tenths
diameterPx(box) ==
    Num(box.width * MODEL_INPUT_SIZE + box.height * MODEL_INPUT_SIZE, 2 * 10)

calculatePhysicalSize_WidthOnly(box, ppm) ==
    IF Falsy(ppm) \/ isNaN(ppm)
    THEN Null
    ELSE JSDivide(Num(box.width * MODEL_INPUT_SIZE, 10), ppm)

\* calculatePhysicalSize (App copy.jsx:135-141): null when !ppm || isNaN(ppm),
\* else ((width * 640 + height * 640) / 2) / ppm
calculatePhysicalSize(box, ppm) ==
    IF Falsy(ppm) \/ isNaN(ppm)
    THEN Null
    ELSE LET widthPx == box.width * MODEL_INPUT_SIZE
             heightPx == box.height * MODEL_INPUT_SIZE
             diameter == Num(widthPx + heightPx, 2 * 10)
         IN JSDivide(diameter, ppm)

\* useState initialisers (App copy.jsx:21-38)
Construct(saved) ==
    /\ status' = "loading"
    /\ error' = Null
    /\ boxes' = <<>>
    /\ calibrationMode' = FALSE
    /\ referenceSize' = IF saved # Null THEN saved.referenceSize ELSE Num(10, 1)
    /\ calibrationComplete' = (saved # Null)
    /\ pixelsPerMM' = IF saved # Null THEN saved.ppm ELSE Null
    /\ selectedReferenceBox' = Null
    /\ selectedIndex' = 0

\* the page is loaded again: the component is constructed from localStorage
Reload ==
    /\ Construct(localStorage)
    /\ lastOp' = [op |-> "reload", arg |-> "", ok |-> TRUE]
    /\ UNCHANGED localStorage
    /\ UNCHANGED pureVars

\* worker.onmessage, type 'loaded' (App copy.jsx:272-273)
onLoaded ==
    /\ status' = "ready"
    /\ lastOp' = [op |-> "loaded", arg |-> "", ok |-> TRUE]
    /\ UNCHANGED <<error, boxes, calibrationMode, referenceSize,
                   calibrationComplete, pixelsPerMM, selectedReferenceBox, selectedIndex,
                   localStorage>>
    /\ UNCHANGED pureVars

\* the 'inference' handler with a setSelectedReferenceBox(null) added
onInference_ClearsSelection ==
    /\ \E t \in Tensors(FrameRows, MaxFrameBoxes) :
          boxes' = nonMaxSuppression(parseYOLOv5Output(t.data, t.dims))
    /\ selectedReferenceBox' = Null
    /\ selectedIndex' = 0
    /\ lastOp' = [op |-> "inference", arg |-> "", ok |-> TRUE]
    /\ UNCHANGED <<status, error, calibrationMode, referenceSize,
                   calibrationComplete, pixelsPerMM, localStorage>>
    /\ UNCHANGED pureVars

\* worker.onmessage, type 'inference' (App copy.jsx:274-280)
onInference ==
    /\ \E t \in Tensors(FrameRows, MaxFrameBoxes) :
          boxes' = nonMaxSuppression(parseYOLOv5Output(t.data, t.dims))
    \* every detection of the new array is an object parseYOLOv5Output has
    \* just created (boxes.push({...})): the selected object is none of them
    /\ selectedIndex' = 0
    /\ lastOp' = [op |-> "inference", arg |-> "", ok |-> TRUE]
    /\ UNCHANGED <<status, error, calibrationMode, referenceSize,
                   calibrationComplete, pixelsPerMM, selectedReferenceBox,
                   localStorage>>
    /\ UNCHANGED pureVars

\* worker.onmessage, type 'error' (App copy.jsx:281-285)
onError ==
    /\ error' = Str("Inference error")
    /\ status' = "error"
    /\ lastOp' = [op |-> "error", arg |-> "", ok |-> TRUE]
    /\ UNCHANGED <<boxes, calibrationMode, referenceSize,
                   calibrationComplete, pixelsPerMM, selectedReferenceBox, selectedIndex,
                   localStorage>>
    /\ UNCHANGED pureVars

\* onChange of the reference size field, shown while calibration is not
\* complete (App copy.jsx:449, 456-463)
onChangeReferenceSize ==
    /\ ~calibrationComplete
    /\ \E str \in InputStrings :
          /\ referenceSize' = OrZero(parseFloat(str))
          /\ lastOp' = [op |-> "onChange", arg |-> str, ok |-> TRUE]
    /\ UNCHANGED <<status, error, boxes, calibrationMode,
                   calibrationComplete, pixelsPerMM, selectedReferenceBox, selectedIndex,
                   localStorage>>
    /\ UNCHANGED pureVars

\* startCalibration without the test of the reference size
startCalibration_NoCheck ==
    /\ ~calibrationComplete
    /\ ~calibrationMode
    /\ calibrationMode' = TRUE
    /\ selectedReferenceBox' = Null
    /\ selectedIndex' = 0
    /\ error' = Null
    /\ lastOp' = [op |-> "startCalibration", arg |-> "", ok |-> TRUE]
    /\ UNCHANGED <<status, boxes, referenceSize, calibrationComplete,
                   pixelsPerMM, localStorage>>
    /\ UNCHANGED pureVars

\* startCalibration (App copy.jsx:213-221); its button is shown while neither
\* calibrationComplete nor calibrationMode (App copy.jsx:449, 467-468)
startCalibration ==
    /\ ~calibrationComplete
    /\ ~calibrationMode
    /\ IF validReferenceSize(referenceSize)
       THEN /\ calibrationMode' = TRUE
            /\ selectedReferenceBox' = Null
            /\ selectedIndex' = 0
            /\ error' = Null
            /\ lastOp' = [op |-> "startCalibration", arg |-> "", ok |-> TRUE]
       ELSE /\ error' = Str("Please enter a valid reference size first")
            /\ lastOp' = [op |-> "startCalibration", arg |-> "", ok |-> FALSE]
            /\ UNCHANGED <<calibrationMode, selectedReferenceBox, selectedIndex>>
    /\ UNCHANGED <<status, boxes, referenceSize, calibrationComplete,
                   pixelsPerMM, localStorage>>
    /\ UNCHANGED pureVars

\* completeCalibration whose failure branch also leaves calibrationMode and
\* drops the selection
\* completeCalibration without setCalibrationMode(false)
completeCalibration_KeepsMode ==
    /\ ~calibrationComplete
    /\ calibrationMode
    /\ selectedReferenceBox # Null
    /\ IF selectedReferenceBox # Null /\ validReferenceSize(referenceSize)
       THEN LET ppm == JSDivide(diameterPx(selectedReferenceBox), referenceSize)
            IN /\ pixelsPerMM' = ppm
               /\ calibrationComplete' = TRUE
               /\ error' = Null
               /\ localStorage' = [ppm |-> JSONNumber(ppm),
                                   referenceSize |-> JSONNumber(referenceSize)]
               /\ lastOp' = [op |-> "completeCalibration", arg |-> "", ok |-> TRUE]
               /\ UNCHANGED calibrationMode
       ELSE /\ error' = Str("Please select a reference object and ensure valid size")
            /\ lastOp' = [op |-> "completeCalibration", arg |-> "", ok |-> FALSE]
            /\ UNCHANGED <<pixelsPerMM, calibrationComplete, calibrationMode,
                           localStorage>>
    /\ UNCHANGED <<status, boxes, referenceSize, selectedReferenceBox, selectedIndex>>
    /\ UNCHANGED pureVars

completeCalibration_FailureResets ==
    /\ ~calibrationComplete
    /\ calibrationMode
    /\ selectedReferenceBox # Null
    /\ IF selectedReferenceBox # Null /\ validReferenceSize(referenceSize)
       THEN LET ppm == JSDivide(diameterPx(selectedReferenceBox), referenceSize)
            IN /\ pixelsPerMM' = ppm
               /\ calibrationComplete' = TRUE
               /\ calibrationMode' = FALSE
               /\ error' = Null
               /\ localStorage' = [ppm |-> JSONNumber(ppm),
                                   referenceSize |-> JSONNumber(referenceSize)]
               /\ lastOp' = [op |-> "completeCalibration", arg |-> "", ok |-> TRUE]
               /\ UNCHANGED <<selectedReferenceBox, selectedIndex>>
       ELSE /\ error' = Str("Please select a reference object and ensure valid size")
            /\ lastOp' = [op |-> "completeCalibration", arg |-> "", ok |-> FALSE]
            /\ calibrationMode' = FALSE
            /\ selectedReferenceBox' = Null
            /\ selectedIndex' = 0
            /\ UNCHANGED <<pixelsPerMM, calibrationComplete, localStorage>>
    /\ UNCHANGED <<status, boxes, referenceSize>>
    /\ UNCHANGED pureVars

\* completeCalibration (App copy.jsx:223-242); its button is shown while
\* calibrationMode with a selected box (App copy.jsx:449, 467-474)
completeCalibration ==
    /\ ~calibrationComplete
    /\ calibrationMode
    /\ selectedReferenceBox # Null
    /\ IF selectedReferenceBox # Null /\ validReferenceSize(referenceSize)
       THEN LET ppm == JSDivide(diameterPx(selectedReferenceBox), referenceSize)
            IN /\ pixelsPerMM' = ppm
               /\ calibrationComplete' = TRUE
               /\ calibrationMode' = FALSE
               /\ error' = Null
               /\ localStorage' = [ppm |-> JSONNumber(ppm),
                                   referenceSize |-> JSONNumber(referenceSize)]
               /\ lastOp' = [op |-> "completeCalibration", arg |-> "", ok |-> TRUE]
       ELSE /\ error' = Str("Please select a reference object and ensure valid size")
            /\ lastOp' = [op |-> "completeCalibration", arg |-> "", ok |-> FALSE]
            /\ UNCHANGED <<pixelsPerMM, calibrationComplete, calibrationMode,
                           localStorage>>
    /\ UNCHANGED <<status, boxes, referenceSize, selectedReferenceBox, selectedIndex>>
    /\ UNCHANGED pureVars

\* resetCalibration without localStorage.removeItem
resetCalibration_KeepsEntry ==
    /\ calibrationComplete
    /\ calibrationComplete' = FALSE
    /\ pixelsPerMM' = Null
    /\ selectedReferenceBox' = Null
    /\ selectedIndex' = 0
    /\ calibrationMode' = TRUE
    /\ lastOp' = [op |-> "resetCalibration", arg |-> "", ok |-> TRUE]
    /\ UNCHANGED <<status, error, boxes, referenceSize, localStorage>>
    /\ UNCHANGED pureVars

\* resetCalibration without setPixelsPerMM(null)
resetCalibration_KeepsPpm ==
    /\ calibrationComplete
    /\ calibrationComplete' = FALSE
    /\ selectedReferenceBox' = Null
    /\ selectedIndex' = 0
    /\ calibrationMode' = TRUE
    /\ localStorage' = Null
    /\ lastOp' = [op |-> "resetCalibration", arg |-> "", ok |-> TRUE]
    /\ UNCHANGED <<status, error, boxes, referenceSize, pixelsPerMM>>
    /\ UNCHANGED pureVars

\* resetCalibration (App copy.jsx:244-250); its button is shown while
\* calibrationComplete (App copy.jsx:449, 496-501)
resetCalibration ==
    /\ calibrationComplete
    /\ calibrationComplete' = FALSE
    /\ pixelsPerMM' = Null
    /\ selectedReferenceBox' = Null
    /\ selectedIndex' = 0
    /\ calibrationMode' = TRUE
    /\ localStorage' = Null
    /\ lastOp' = [op |-> "resetCalibration", arg |-> "", ok |-> TRUE]
    /\ UNCHANGED <<status, error, boxes, referenceSize>>
    /\ UNCHANGED pureVars

\* square of the distance between the click and the centre of the box on the
\* canvas, in units of 1/unit canvas pixel (App copy.jsx:406-412); x1..y2 are
\* in twentieths, so the centre is (x1 + x2) * canvas.width / (2*20*640)
distanceSq(box, click, canvas) ==
    LET den == 2 * 20 * MODEL_INPUT_SIZE
        g == GCD(GCD(den, canvas[1]), canvas[2])
        unit == den \div g
        dx == click[1] * unit - (box.x1 + box.x2) * (canvas[1] \div g)
        dy == click[2] * unit - (box.y1 + box.y2) * (canvas[2] \div g)
    IN [sq |-> dx * dx + dy * dy, unit |-> unit]

\* boxes.forEach of handleCanvasClick from index i on: the index of closestBox
\* (0 for null) given the closest box and its squared distance so far
RECURSIVE closestFrom(_, _, _, _, _, _)
closestFrom(bs, i, best, bestSq, click, canvas) ==
    IF i > Len(bs) THEN [box |-> best, sq |-> bestSq]
    ELSE LET dsq == distanceSq(bs[i], click, canvas).sq
         IN IF best = 0 \/ dsq < bestSq
            THEN closestFrom(bs, i + 1, i, dsq, click, canvas)
            ELSE closestFrom(bs, i + 1, best, bestSq, click, canvas)

\* the box a click selects: closestBox && minDistance < 50, else 0
clickedBox(bs, click, canvas) ==
    LET c == closestFrom(bs, 1, 0, 0, click, canvas)
    IN IF c.box # 0
          /\ c.sq < 50 * 50 * distanceSq(bs[c.box], click, canvas).unit
                            * distanceSq(bs[c.box], click, canvas).unit
       THEN c.box ELSE 0

\* handleCanvasClick and handleBoxClick without the calibrationMode tests
handleCanvasClick_NoModeCheck ==
    /\ \E click \in Clicks, canvas \in CanvasSizes :
          IF Len(boxes) = 0
          THEN /\ lastOp' = [op |-> "canvasClick", arg |-> "", ok |-> FALSE]
               /\ UNCHANGED <<selectedReferenceBox, selectedIndex>>
          ELSE LET b == clickedBox(boxes, click, canvas)
               IN IF b # 0
                  THEN /\ selectedReferenceBox' = boxes[b]
                       /\ selectedIndex' = b
                       /\ lastOp' = [op |-> "canvasClick", arg |-> "", ok |-> TRUE]
                  ELSE /\ lastOp' = [op |-> "canvasClick", arg |-> "", ok |-> FALSE]
                       /\ UNCHANGED <<selectedReferenceBox, selectedIndex>>
    /\ UNCHANGED <<status, error, boxes, calibrationMode, referenceSize,
                   calibrationComplete, pixelsPerMM, localStorage>>
    /\ UNCHANGED pureVars

\* handleCanvasClick and handleBoxClick (App copy.jsx:391-423, 207-211); the
\* canvas is always rendered
handleCanvasClick ==
    /\ \E click \in Clicks, canvas \in CanvasSizes :
          IF ~calibrationMode \/ Len(boxes) = 0
          THEN /\ lastOp' = [op |-> "canvasClick", arg |-> "", ok |-> FALSE]
               /\ UNCHANGED <<selectedReferenceBox, selectedIndex>>
          ELSE LET b == clickedBox(boxes, click, canvas)
               IN IF b # 0 /\ calibrationMode
                  THEN /\ selectedReferenceBox' = boxes[b]
                       /\ selectedIndex' = b
                       /\ lastOp' = [op |-> "canvasClick", arg |-> "", ok |-> TRUE]
                  ELSE /\ lastOp' = [op |-> "canvasClick", arg |-> "", ok |-> FALSE]
                       /\ UNCHANGED <<selectedReferenceBox, selectedIndex>>
    /\ UNCHANGED <<status, error, boxes, calibrationMode, referenceSize,
                   calibrationComplete, pixelsPerMM, localStorage>>
    /\ UNCHANGED pureVars

Init ==
    /\ AppInitial
    /\ data = <<>>
    /\ dims = <<1, 0, NumAttrs>>
    /\ parsedBoxes = <<>>
    /\ nmsBoxes = <<>>
    /\ pc = "idle"
    /\ SizeIdle
    /\ ProtocolIdle

Next ==
    \/ Reload
    \/ onLoaded
    \/ onInference
    \/ onError
    \/ onChangeReferenceSize
    \/ startCalibration
    \/ handleCanvasClick
    \/ completeCalibration
    \/ resetCalibration

Spec == Init /\ [][Next]_vars

(***************************************************************************)
(* The main thread and the worker: camera start, model load, the render    *)
(* loop and the messages between App and onnxWorker.js                     *)
(***************************************************************************)

\* largest value of performance.now(), in ms
MaxNow == 1500

\* the output tensors of session.run: no row, or one row of FrameRows
WorkerFrames == Tensors(FrameRows, 1)

LoadModelMsg == [type |-> "loadModel"]
InferMsg == [type |-> "infer"]
LoadedMsg == [type |-> "loaded"]
InferenceMsg(t) == [type |-> "inference", data |-> t.data, dims |-> t.dims]
ErrorMsg(text) == [type |-> "error", message |-> text]

\* the fields of App that neither the camera nor a message changes
calibrationVars ==
    <<calibrationMode, referenceSize, calibrationComplete, pixelsPerMM,
      selectedReferenceBox, selectedIndex, localStorage>>

\* the render effect (App copy.jsx:293-347) runs again after a commit that
\* changed one of its dependencies: its cleanup cancels the animation frame,
\* its body starts a loop with new locals if the guard of line 294 lets it
runRenderEffect(newStatus, newVideoReady) ==
    /\ loopOn' = (newStatus = "ready" /\ newVideoReady)
    /\ lastInferenceTime' = 0
    /\ lastBoxes' = <<>>

\* setStatus(newStatus): a state change only when the value differs
setStatus(newStatus, newVideoReady) ==
    /\ status' = newStatus
    /\ IF newStatus # status
       THEN runRenderEffect(newStatus, newVideoReady)
       ELSE UNCHANGED <<loopOn, lastInferenceTime, lastBoxes>>

\* the mount effects: initCamera() has been called and the worker has been
\* created and sent 'loadModel' (App copy.jsx:257-291)
InitProtocol ==
    /\ AppInitial
    /\ data = <<>>
    /\ dims = <<1, 0, NumAttrs>>
    /\ parsedBoxes = <<>>
    /\ nmsBoxes = <<>>
    /\ pc = "idle"
    /\ SizeIdle
    /\ isProcessingRef = FALSE
    /\ videoReadyRef = FALSE
    /\ cameraStarting = TRUE
    /\ loopOn = FALSE
    /\ lastInferenceTime = 0
    /\ lastBoxes = <<>>
    /\ now = 0
    /\ postedAt = -1
    /\ toWorker = <<LoadModelMsg>>
    /\ toMain = <<>>
    /\ session = FALSE
    /\ processing = FALSE
    /\ loading = FALSE
    /\ running = 0

\* time passes
tick ==
    /\ now + INFERENCE_THROTTLE_MS \div 2 <= MaxNow
    /\ now' = now + INFERENCE_THROTTLE_MS \div 2
    /\ lastOp' = [op |-> "tick", arg |-> "", ok |-> TRUE]
    /\ UNCHANGED <<status, error, boxes>>
    /\ UNCHANGED calibrationVars
    /\ UNCHANGED <<mainVars, postedAt, toWorker, toMain, workerVars>>
    /\ UNCHANGED <<pipeVars, sizeVars>>

\* video.onloadedmetadata of initCamera (App copy.jsx:176-179)
onLoadedMetadata ==
    /\ cameraStarting
    /\ ~videoReadyRef
    /\ videoReadyRef' = TRUE
    /\ lastOp' = [op |-> "loadedmetadata", arg |-> "", ok |-> TRUE]
    /\ UNCHANGED <<status, error, boxes>>
    /\ UNCHANGED calibrationVars
    /\ UNCHANGED <<isProcessingRef, cameraStarting, loopOn, lastInferenceTime,
                   lastBoxes>>
    /\ UNCHANGED <<now, postedAt, toWorker, toMain, workerVars>>
    /\ UNCHANGED <<pipeVars, sizeVars>>

\* initCamera after await video.play(): setStatus('ready')
\* (App copy.jsx:185-186)
cameraPlays ==
    /\ cameraStarting
    /\ videoReadyRef
    /\ cameraStarting' = FALSE
    /\ setStatus("ready", videoReadyRef)
    /\ lastOp' = [op |-> "cameraPlays", arg |-> "", ok |-> TRUE]
    /\ UNCHANGED <<error, boxes>>
    /\ UNCHANGED calibrationVars
    /\ UNCHANGED <<isProcessingRef, videoReadyRef>>
    /\ UNCHANGED <<now, postedAt, toWorker, toMain, workerVars>>
    /\ UNCHANGED <<pipeVars, sizeVars>>

\* the catch of initCamera (App copy.jsx:188-191): getUserMedia, the video
\* element or play() has failed
cameraFails ==
    /\ cameraStarting
    /\ cameraStarting' = FALSE
    /\ error' = Str("Camera error")
    /\ setStatus("error", videoReadyRef)
    /\ lastOp' = [op |-> "cameraFails", arg |-> "", ok |-> FALSE]
    /\ UNCHANGED boxes
    /\ UNCHANGED calibrationVars
    /\ UNCHANGED <<isProcessingRef, videoReadyRef>>
    /\ UNCHANGED <<now, postedAt, toWorker, toMain, workerVars>>
    /\ UNCHANGED <<pipeVars, sizeVars>>

\* toggleCamera (App copy.jsx:252-254) changes facingMode, and the effect of
\* lines 257-264 calls initCamera again, which begins with
\* videoReadyRef.current = false and setStatus('loading') (lines 151-152);
\* taken while no initCamera is under way
toggleCamera ==
    /\ ~cameraStarting
    /\ cameraStarting' = TRUE
    /\ videoReadyRef' = FALSE
    /\ setStatus("loading", FALSE)
    /\ lastOp' = [op |-> "toggleCamera", arg |-> "", ok |-> TRUE]
    /\ UNCHANGED <<error, boxes>>
    /\ UNCHANGED calibrationVars
    /\ UNCHANGED isProcessingRef
    /\ UNCHANGED <<now, postedAt, toWorker, toMain, workerVars>>
    /\ UNCHANGED <<pipeVars, sizeVars>>

\* a commit that changed calibrationMode, selectedReferenceBox or pixelsPerMM
\* (dependencies of the render effect, App copy.jsx:347): the effect runs
\* again
effectRerun ==
    /\ runRenderEffect(status, videoReadyRef)
    /\ lastOp' = [op |-> "effectRerun", arg |-> "", ok |-> TRUE]
    /\ UNCHANGED <<status, error, boxes>>
    /\ UNCHANGED calibrationVars
    /\ UNCHANGED <<isProcessingRef, videoReadyRef, cameraStarting>>
    /\ UNCHANGED <<now, postedAt, toWorker, toMain, workerVars>>
    /\ UNCHANGED <<pipeVars, sizeVars>>

\* one animation frame of the render loop (App copy.jsx:304-342): lastBoxes
\* follows a non-empty boxes, and a frame is posted when none is being
\* processed and the throttle interval has passed; the drawing calls and
\* preprocess are taken to return (the catch of line 337 only logs)
render ==
    /\ loopOn
    /\ lastBoxes' = IF Len(boxes) > 0 THEN boxes ELSE lastBoxes
    /\ IF ~isProcessingRef /\ now - lastInferenceTime > INFERENCE_THROTTLE_MS
       THEN /\ isProcessingRef' = TRUE
            /\ lastInferenceTime' = now
            /\ postedAt' = now
            /\ toWorker' = Append(toWorker, InferMsg)
            /\ lastOp' = [op |-> "render", arg |-> "infer", ok |-> TRUE]
       ELSE /\ lastOp' = [op |-> "render", arg |-> "", ok |-> TRUE]
            /\ UNCHANGED <<isProcessingRef, lastInferenceTime, postedAt,
                           toWorker>>
    /\ UNCHANGED <<status, error, boxes>>
    /\ UNCHANGED calibrationVars
    /\ UNCHANGED <<videoReadyRef, cameraStarting, loopOn>>
    /\ UNCHANGED <<now, toMain, workerVars>>
    /\ UNCHANGED <<pipeVars, sizeVars>>

\* worker.onmessage of App for the first message in the queue
\* (App copy.jsx:270-286)
mainOnMessage ==
    /\ toMain # <<>>
    /\ toMain' = Tail(toMain)
    /\ LET msg == Head(toMain)
       IN CASE msg.type = "loaded" ->
                 /\ setStatus("ready", videoReadyRef)
                 /\ lastOp' = [op |-> "loaded", arg |-> "", ok |-> TRUE]
                 /\ UNCHANGED <<error, boxes, isProcessingRef>>
            [] msg.type = "inference" ->
                 \* setBoxes(nmsBoxes) with a new array: the effect runs again
                 /\ boxes' = nonMaxSuppression(
                                 parseYOLOv5Output(msg.data, msg.dims))
                 /\ isProcessingRef' = FALSE
                 /\ runRenderEffect(status, videoReadyRef)
                 /\ lastOp' = [op |-> "inference", arg |-> "", ok |-> TRUE]
                 /\ UNCHANGED <<status, error>>
            [] msg.type = "error" ->
                 /\ error' = Str("Inference error")
                 /\ setStatus("error", videoReadyRef)
                 /\ isProcessingRef' = FALSE
                 /\ lastOp' = [op |-> "error", arg |-> msg.message, ok |-> FALSE]
                 /\ UNCHANGED boxes
    /\ UNCHANGED calibrationVars
    /\ UNCHANGED <<videoReadyRef, cameraStarting>>
    /\ UNCHANGED <<now, postedAt, toWorker, workerVars>>
    /\ UNCHANGED <<pipeVars, sizeVars>>

\* self.onmessage of the worker, type 'loadModel', up to its first await
\* (onnxWorker.js:16-33)
workerOnLoadModel ==
    /\ toWorker # <<>>
    /\ Head(toWorker).type = "loadModel"
    /\ toWorker' = Tail(toWorker)
    /\ loading' = TRUE
    /\ lastOp' = [op |-> "workerLoadModel", arg |-> "", ok |-> TRUE]
    /\ UNCHANGED <<session, processing, running>>
    /\ UNCHANGED <<status, error, boxes>>
    /\ UNCHANGED calibrationVars
    /\ UNCHANGED <<mainVars, now, postedAt, toMain>>
    /\ UNCHANGED <<pipeVars, sizeVars>>

\* InferenceSession.create has resolved (onnxWorker.js:33, 38, 50)
workerLoadSucceeds ==
    /\ loading
    /\ loading' = FALSE
    /\ session' = TRUE
    /\ toMain' = Append(toMain, LoadedMsg)
    /\ lastOp' = [op |-> "workerLoaded", arg |-> "", ok |-> TRUE]
    /\ UNCHANGED <<processing, running>>
    /\ UNCHANGED <<status, error, boxes>>
    /\ UNCHANGED calibrationVars
    /\ UNCHANGED <<mainVars, now, postedAt, toWorker>>
    /\ UNCHANGED <<pipeVars, sizeVars>>

\* both InferenceSession.create calls have rejected (onnxWorker.js:39-41,
\* 51-57)
workerLoadFails ==
    /\ loading
    /\ loading' = FALSE
    /\ toMain' = Append(toMain, ErrorMsg("Model load failed"))
    /\ lastOp' = [op |-> "workerLoadFailed", arg |-> "", ok |-> FALSE]
    /\ UNCHANGED <<session, processing, running>>
    /\ UNCHANGED <<status, error, boxes>>
    /\ UNCHANGED calibrationVars
    /\ UNCHANGED <<mainVars, now, postedAt, toWorker>>
    /\ UNCHANGED <<pipeVars, sizeVars>>

\* the 'infer' handler with a bare return where no session exists
workerOnInfer_SilentNoSession ==
    /\ toWorker # <<>>
    /\ Head(toWorker).type = "infer"
    /\ toWorker' = Tail(toWorker)
    /\ IF ~session
       THEN /\ lastOp' = [op |-> "workerInfer", arg |-> "no session", ok |-> FALSE]
            /\ UNCHANGED <<toMain, processing, running>>
       ELSE IF processing
       THEN /\ lastOp' = [op |-> "workerInfer", arg |-> "skipped", ok |-> FALSE]
            /\ UNCHANGED <<toMain, processing, running>>
       ELSE /\ processing' = TRUE
            /\ running' = running + 1
            /\ lastOp' = [op |-> "workerInfer", arg |-> "run", ok |-> TRUE]
            /\ UNCHANGED toMain
    /\ UNCHANGED <<session, loading>>
    /\ UNCHANGED <<status, error, boxes>>
    /\ UNCHANGED calibrationVars
    /\ UNCHANGED <<mainVars, now, postedAt>>
    /\ UNCHANGED <<pipeVars, sizeVars>>

\* self.onmessage of the worker, type 'infer', up to await session.run
\* (onnxWorker.js:60-85)
workerOnInfer ==
    /\ toWorker # <<>>
    /\ Head(toWorker).type = "infer"
    /\ toWorker' = Tail(toWorker)
    /\ IF ~session
       THEN /\ toMain' = Append(toMain, ErrorMsg("Model not loaded"))
            /\ lastOp' = [op |-> "workerInfer", arg |-> "no session", ok |-> FALSE]
            /\ UNCHANGED <<processing, running>>
       ELSE IF processing
       THEN /\ lastOp' = [op |-> "workerInfer", arg |-> "skipped", ok |-> FALSE]
            /\ UNCHANGED <<toMain, processing, running>>
       ELSE /\ processing' = TRUE
            /\ running' = running + 1
            /\ lastOp' = [op |-> "workerInfer", arg |-> "run", ok |-> TRUE]
            /\ UNCHANGED toMain
    /\ UNCHANGED <<session, loading>>
    /\ UNCHANGED <<status, error, boxes>>
    /\ UNCHANGED calibrationVars
    /\ UNCHANGED <<mainVars, now, postedAt>>
    /\ UNCHANGED <<pipeVars, sizeVars>>

\* the rest of the 'infer' handler without the finally block: processing is
\* set back only after a posted result
workerRunSettles_NoFinally ==
    /\ running > 0
    /\ running' = running - 1
    /\ \/ /\ \E t \in WorkerFrames : toMain' = Append(toMain, InferenceMsg(t))
          /\ processing' = FALSE
          /\ lastOp' = [op |-> "workerRun", arg |-> "", ok |-> TRUE]
       \/ /\ toMain' = Append(toMain, ErrorMsg("Inference failed"))
          /\ processing' = processing
          /\ lastOp' = [op |-> "workerRun", arg |-> "", ok |-> FALSE]
    /\ UNCHANGED <<session, loading>>
    /\ UNCHANGED <<status, error, boxes>>
    /\ UNCHANGED calibrationVars
    /\ UNCHANGED <<mainVars, now, postedAt, toWorker>>
    /\ UNCHANGED <<pipeVars, sizeVars>>

\* session.run has settled: the rest of the 'infer' handler
\* (onnxWorker.js:85-114); the result is posted, or the error of a rejected
\* run or of a missing output tensor, and finally processing = false
workerRunSettles ==
    /\ running > 0
    /\ running' = running - 1
    /\ processing' = FALSE
    /\ \/ /\ \E t \in WorkerFrames : toMain' = Append(toMain, InferenceMsg(t))
          /\ lastOp' = [op |-> "workerRun", arg |-> "", ok |-> TRUE]
       \/ /\ toMain' = Append(toMain, ErrorMsg("Inference failed"))
          /\ lastOp' = [op |-> "workerRun", arg |-> "", ok |-> FALSE]
    /\ UNCHANGED <<session, loading>>
    /\ UNCHANGED <<status, error, boxes>>
    /\ UNCHANGED calibrationVars
    /\ UNCHANGED <<mainVars, now, postedAt, toWorker>>
    /\ UNCHANGED <<pipeVars, sizeVars>>

NextProtocol ==
    \/ tick
    \/ onLoadedMetadata
    \/ cameraPlays
    \/ cameraFails
    \/ toggleCamera
    \/ effectRerun
    \/ render
    \/ mainOnMessage
    \/ workerOnLoadModel
    \/ workerLoadSucceeds
    \/ workerLoadFails
    \/ workerOnInfer
    \/ workerRunSettles

SpecProtocol == InitProtocol /\ [][NextProtocol]_vars

\* the event loops of the main thread and of the worker take every queued
\* message, and the promises of InferenceSession.create and session.run
\* settle; the first condition is the weak fairness of mainOnMessage, which
\* is enabled exactly when toMain is not empty
SpecProtocolFair ==
    /\ SpecProtocol
    /\ ([]<>(toMain = <<>>) \/ []<><<mainOnMessage>>_vars)
    /\ WF_vars(workerOnLoadModel)
    /\ WF_vars(workerLoadSucceeds \/ workerLoadFails)
    /\ WF_vars(workerOnInfer)
    /\ WF_vars(workerRunSettles)

(***************************************************************************)
(* calculatePhysicalSize as a pure function of a box and a scale factor    *)
(***************************************************************************)

\* largest width and height of a measured box, in tenths of the frame
MaxSide == 3

SizeBoxes == [width : 0..MaxSide, height : 0..MaxSide]

\* scale factors: absent, NaN, infinite, zero, finite positive and negative
ScaleFactors ==
    {Null, NaN, PosInf, NegInf, Num(0, 1), Num(32, 5), Num(64, 1), Num(-32, 5)}

InitPhysicalSize ==
    /\ AppInitial
    /\ data = <<>>
    /\ dims = <<1, 0, NumAttrs>>
    /\ parsedBoxes = <<>>
    /\ nmsBoxes = <<>>
    /\ pc = "idle"
    /\ sizeBox \in SizeBoxes
    /\ sizePpm \in ScaleFactors
    /\ sizeResult = Str("pending")
    /\ ProtocolIdle

\* one call calculatePhysicalSize(sizeBox, sizePpm)
Measure ==
    /\ sizeResult = Str("pending")
    /\ sizeResult' = calculatePhysicalSize(sizeBox, sizePpm)
    /\ UNCHANGED <<sizeBox, sizePpm>>
    /\ UNCHANGED pipeVars
    /\ UNCHANGED protocolVars
    /\ UNCHANGED appVars

NextPhysicalSize == Measure

SpecPhysicalSize == InitPhysicalSize /\ [][NextPhysicalSize]_vars

Measured == sizeResult # Str("pending") /\ sizeResult # Str("idle")

FiniteNonZero(v) == v.k = "num" /\ v.n # 0

\* C11: calculatePhysicalSize returns null whenever the scale factor is null,
\* zero, NaN or infinite, and returns a number only for a finite non-zero
\* scale factor.
C11_AbsentUnlessFiniteNonZero ==
    Measured => ((sizeResult = Null) <=> ~FiniteNonZero(sizePpm))

----------------------------------------------------------------------------
(* Properties of the calibration state machine *)

calibrationFields ==
    <<calibrationMode, calibrationComplete, referenceSize,
      selectedReferenceBox, pixelsPerMM>>

\* the number v is greater than 0 (and so is not NaN)
Positive(v) == (v.k = "num" /\ v.n > 0) \/ (v.k = "inf" /\ v.s = 1)

ExpectedPpm(box, r) == Num((box.width + box.height) * 32 * r.d, r.n)

\* C4: a successful completeCalibration with selected detection d and
\* reference size r sets pixelsPerMM to ((d.width + d.height)/2 * 640) / r,
\* calibrationComplete to true and calibrationMode to false; width = height
\* = 0.1 and r = 10 give 6.4.
C4_CompleteSetsPpm ==
    [][ (lastOp'.op = "completeCalibration" /\ lastOp'.ok)
          => /\ pixelsPerMM' = ExpectedPpm(selectedReferenceBox, referenceSize)
             /\ calibrationComplete'
             /\ ~calibrationMode'
             /\ (/\ selectedReferenceBox.width = 1
                 /\ selectedReferenceBox.height = 1
                 /\ referenceSize = Num(10, 1))
                  => pixelsPerMM' = Num(64, 10) ]_vars

\* C4 witness: calibration completed on a 0.1 x 0.1 detection with a
\* reference size of 10 mm
C4_Witness ==
    /\ lastOp = [op |-> "completeCalibration", arg |-> "", ok |-> TRUE]
    /\ selectedReferenceBox # Null
    /\ selectedReferenceBox.width = 1
    /\ selectedReferenceBox.height = 1
    /\ referenceSize = Num(10, 1)
    /\ pixelsPerMM = Num(32, 5)
    /\ calibrationComplete

\* C5: every step that makes calibrationComplete true starts in a state
\* where referenceSize > 0 and selectedReferenceBox is non-null.
C5_CalibratedNeedsSizeAndSelection ==
    [][ (~calibrationComplete /\ calibrationComplete')
          => /\ Positive(referenceSize)
             /\ selectedReferenceBox # Null ]_vars

\* C5 witness: the calibrated state has just been entered by a successful
\* completeCalibration, with a positive size and a selected detection
C5_Witness ==
    /\ lastOp.op = "completeCalibration"
    /\ lastOp.ok
    /\ calibrationComplete
    /\ ~calibrationMode
    /\ Positive(referenceSize)
    /\ selectedReferenceBox # Null
    /\ localStorage # Null

\* C6: completeCalibration called without a selected detection or with a
\* reference size that is not > 0 signals an error and leaves mode,
\* referenceSize, selectedReferenceBox and pixelsPerMM unchanged.
C6_FailedCompleteKeepsState ==
    [][ (/\ lastOp'.op = "completeCalibration"
         /\ (selectedReferenceBox = Null \/ ~Positive(referenceSize)))
          => /\ error' = Str("Please select a reference object and ensure valid size")
             /\ UNCHANGED calibrationFields ]_vars

\* C6 witness: completeCalibration has failed on a non-positive size
C6_Witness ==
    /\ lastOp = [op |-> "completeCalibration", arg |-> "", ok |-> FALSE]
    /\ ~Positive(referenceSize)
    /\ selectedReferenceBox # Null
    /\ calibrationMode
    /\ ~calibrationComplete
    /\ error = Str("Please select a reference object and ensure valid size")

\* C7: startCalibration enters calibrationMode from the uncalibrated state
\* only if the reference size is valid (> 0, not NaN); otherwise it signals
\* an error and leaves mode, selected reference, pixelsPerMM and reference
\* size unchanged.
C7_StartNeedsValidSize ==
    [][ /\ (lastOp'.op = "startCalibration" /\ Positive(referenceSize))
            => (calibrationMode' /\ ~calibrationComplete')
        /\ (lastOp'.op = "startCalibration" /\ ~Positive(referenceSize))
            => /\ error' = Str("Please enter a valid reference size first")
               /\ UNCHANGED calibrationFields
        /\ (~calibrationMode /\ ~calibrationComplete /\ calibrationMode')
            => Positive(referenceSize) ]_vars

\* C7 witness: startCalibration has been refused on an invalid size
C7_Witness ==
    /\ lastOp = [op |-> "startCalibration", arg |-> "", ok |-> FALSE]
    /\ ~Positive(referenceSize)
    /\ ~calibrationMode
    /\ error = Str("Please enter a valid reference size first")

\* C8 (as claimed): typing a reference size that is not > 0 and finite is
\* rejected: the stored valid reference size stays and an error is signaled.
C8_InvalidSizeRejected ==
    [][ (/\ lastOp'.op = "onChange"
         /\ lastOp'.arg \in {"", "abc", "0", "-5"}
         /\ Positive(referenceSize))
          => /\ referenceSize' = referenceSize
             /\ error' # Null ]_vars

\* C9: a canvas click while calibrationMode is false changes neither
\* selectedReferenceBox nor any other calibration field.
C9_ClickOutsideModeIsNoOp ==
    [][ (lastOp'.op = "canvasClick" /\ ~calibrationMode)
          => UNCHANGED calibrationFields ]_vars

\* C9 witness: a click that hits a box arrived while calibrationMode is false
C9_Witness ==
    /\ lastOp.op = "canvasClick"
    /\ ~calibrationMode
    /\ Len(boxes) > 0
    /\ \E click \in Clicks, canvas \in CanvasSizes :
          clickedBox(boxes, click, canvas) # 0

\* C10 (as claimed): right after resetCalibration the state is uncalibrated:
\* calibrationComplete false, calibrationMode false, pixelsPerMM and
\* selectedReferenceBox cleared.
C10_ResetLeadsToUncalibrated ==
    lastOp.op = "resetCalibration"
        => /\ ~calibrationComplete
           /\ ~calibrationMode
           /\ pixelsPerMM = Null
           /\ selectedReferenceBox = Null

\* the detections a size annotation can be asked for: those on screen
BoxesOnScreen == {boxes[i] : i \in 1..Len(boxes)}

\* C12: in the calibrated state reached by completeCalibration with reference
\* size r and selected detection d of positive width + height,
\* calculatePhysicalSize(d, pixelsPerMM) is r, and so is the size of every
\* detection whose width + height equals that of d.
C12_RoundTrip ==
    (/\ calibrationComplete
     /\ selectedReferenceBox # Null
     /\ selectedReferenceBox.width + selectedReferenceBox.height > 0)
        => /\ calculatePhysicalSize(selectedReferenceBox, pixelsPerMM)
                = referenceSize
           /\ \A b \in BoxesOnScreen \cup SizeBoxes :
                 b.width + b.height
                     = selectedReferenceBox.width + selectedReferenceBox.height
                   => calculatePhysicalSize(b, pixelsPerMM) = referenceSize

\* C12 witness: calibrated with r = 10 on a 0.1 x 0.1 detection, which then
\* measures 10.0 mm, as does a 0.2 x 0 box
C12_Witness ==
    /\ calibrationComplete
    /\ selectedReferenceBox # Null
    /\ selectedReferenceBox.width = 1
    /\ selectedReferenceBox.height = 1
    /\ referenceSize = Num(10, 1)
    /\ calculatePhysicalSize(selectedReferenceBox, pixelsPerMM) = Num(10, 1)
    /\ calculatePhysicalSize([width |-> 2, height |-> 0], pixelsPerMM)
          = Num(10, 1)

\* C13: from resetCalibration until a calibration completes (every state
\* with calibrationComplete false), calculatePhysicalSize with the current
\* pixelsPerMM returns null for every detection.
C13_NoSizeUntilCalibrated ==
    ~calibrationComplete
        => \A b \in BoxesOnScreen \cup SizeBoxes :
              calculatePhysicalSize(b, pixelsPerMM) = Null

\* C13 witness: resetCalibration has just left the calibrated state while
\* detections are on screen, and none of them gets a size
C13_Witness ==
    /\ lastOp.op = "resetCalibration"
    /\ ~calibrationComplete
    /\ boxes # <<>>
    /\ \A b \in BoxesOnScreen : calculatePhysicalSize(b, pixelsPerMM) = Null

\* C14 (as claimed): selectedReferenceBox is non-null only while
\* calibrationMode is true; it is null in the uncalibrated and in the
\* calibrated state.
C14_SelectionOnlyWhileAwaiting ==
    selectedReferenceBox # Null => calibrationMode

\* C14 (amended): selectedReferenceBox is non-null only while calibrationMode
\* or calibrationComplete is true; it is null in the uncalibrated state, and
\* completeCalibration carries it into the calibrated state.
C14_SelectionOnlyWhileAwaitingOrCalibrated ==
    /\ [](selectedReferenceBox # Null
            => (calibrationMode \/ calibrationComplete))
    /\ [][ (lastOp'.op = "completeCalibration" /\ lastOp'.ok)
             => (selectedReferenceBox' = selectedReferenceBox
                 /\ selectedReferenceBox' # Null) ]_vars

\* C14 witness: the calibrated state still holds the selected detection
C14_Witness ==
    /\ calibrationComplete
    /\ ~calibrationMode
    /\ selectedReferenceBox # Null

\* C15 (as claimed): whenever selectedReferenceBox is non-null it is, by
\* identity, one of the detections of the current boxes array, also after
\* an inference result has replaced boxes.
C15_SelectionIsCurrentDetection ==
    selectedReferenceBox # Null
        => /\ selectedIndex \in 1..Len(boxes)
           /\ boxes[selectedIndex] = selectedReferenceBox

\* C16 (as claimed): calibrationComplete becomes true only in a step from
\* calibrationMode, and calibrationMode becomes true only by startCalibration
\* in a step from the uncalibrated state.
C16_WorkflowOrder ==
    [][ /\ (~calibrationComplete /\ calibrationComplete')
             => (calibrationMode /\ ~calibrationMode')
        /\ (~calibrationMode /\ calibrationMode')
             => /\ ~calibrationComplete
                /\ lastOp'.op = "startCalibration" ]_vars

\* C17: no reachable state has calibrationMode and calibrationComplete both
\* true.
C17_ModeAndCompleteExclusive ==
    ~(calibrationMode /\ calibrationComplete)

\* C17 witness: each of the two flags has been true: completeCalibration has
\* just replaced calibrationMode by calibrationComplete
C17_Witness ==
    /\ lastOp = [op |-> "completeCalibration", arg |-> "", ok |-> TRUE]
    /\ calibrationComplete
    /\ ~calibrationMode
    /\ pixelsPerMM # Null

\* the detections of bs, each marked with its position in bs: the marks
\* tell apart detections that have equal fields
Marked(bs) ==
    [i \in 1..Len(bs) |->
        [id |-> i, classId |-> bs[i].classId, label |-> bs[i].label,
         confidence |-> bs[i].confidence,
         x1 |-> bs[i].x1, y1 |-> bs[i].y1, x2 |-> bs[i].x2, y2 |-> bs[i].y2,
         width |-> bs[i].width, height |-> bs[i].height]]

Unmarked(b) ==
    [classId |-> b.classId, label |-> b.label, confidence |-> b.confidence,
     x1 |-> b.x1, y1 |-> b.y1, x2 |-> b.x2, y2 |-> b.y2,
     width |-> b.width, height |-> b.height]

OfClass(bs, c) ==
    LET hasClass(b) == b.classId = c
    IN SelectSeq(bs, hasClass)

ClassIdsOf(bs) == {bs[i].classId : i \in 1..Len(bs)}

IoUAboveThreshold(a, b) ==
    JSGreater(calculateIoU(a, b), NMS_THRESHOLD_N, NMS_THRESHOLD_D)

\* C18: nonMaxSuppression is idempotent: applied to its own output it
\* returns that output, the same detections in the same order.
C18_Idempotent ==
    pc = "done"
        => nonMaxSuppression(nmsBoxes) = nmsBoxes

\* C18 witness: a detection has been suppressed and two survivors have the
\* same confidence
C18_Witness ==
    /\ pc = "done"
    /\ Len(nmsBoxes) < Len(parsedBoxes)
    /\ \E i, j \in 1..Len(nmsBoxes) :
          i < j /\ nmsBoxes[i].confidence = nmsBoxes[j].confidence

\* C19: the output of nonMaxSuppression is not longer than its input, and
\* every output element is an input element that is in the output once.
C19_OutputIsSubsetOfInput ==
    pc = "done"
        => LET out == nonMaxSuppression(Marked(parsedBoxes))
           IN /\ Len(nmsBoxes) <= Len(parsedBoxes)
              /\ Len(out) = Len(nmsBoxes)
              /\ \A k \in 1..Len(out) :
                    /\ out[k].id \in 1..Len(parsedBoxes)
                    /\ Unmarked(out[k]) = parsedBoxes[out[k].id]
                    /\ nmsBoxes[k] = parsedBoxes[out[k].id]
              /\ \A k, l \in 1..Len(out) : out[k].id = out[l].id => k = l

\* C19 witness: three detections go in and one comes out
C19_Witness ==
    /\ pc = "done"
    /\ Len(parsedBoxes) = MaxBoxes
    /\ Len(nmsBoxes) = 1

\* C20: no detection is removed because of a detection of another class: the
\* output restricted to a class is the output for the input restricted to
\* that class, two detections of different classes that make up the input
\* are both in the output whatever their IoU, and an input with pairwise
\* distinct classIds is returned with all its elements.
C20_NoCrossClassSuppression ==
    pc = "done"
        => /\ \A c \in ClassIdsOf(parsedBoxes) :
                 OfClass(nmsBoxes, c) = nonMaxSuppression(OfClass(parsedBoxes, c))
           /\ (\A i, j \in 1..Len(parsedBoxes) :
                  i # j => parsedBoxes[i].classId # parsedBoxes[j].classId)
                => /\ Len(nmsBoxes) = Len(parsedBoxes)
                   /\ \A i \in 1..Len(parsedBoxes) :
                         \E k \in 1..Len(nmsBoxes) : nmsBoxes[k] = parsedBoxes[i]

\* C20 witness: two detections of different classes with IoU above the
\* threshold are both in the output
C20_Witness ==
    /\ pc = "done"
    /\ Len(parsedBoxes) = 2
    /\ parsedBoxes[1].classId # parsedBoxes[2].classId
    /\ IoUAboveThreshold(parsedBoxes[1], parsedBoxes[2])
    /\ Len(nmsBoxes) = 2

\* C21: the output of nonMaxSuppression is in descending order of confidence,
\* and detections of equal confidence are in their input order.
C21_SortedByConfidenceStable ==
    pc = "done"
        => LET out == nonMaxSuppression(Marked(parsedBoxes))
           IN \A k, l \in 1..Len(out) :
                 k < l => \/ out[k].confidence > out[l].confidence
                          \/ /\ out[k].confidence = out[l].confidence
                             /\ out[k].id < out[l].id

\* C21 witness: the input was not in descending order, and the output holds
\* two detections of equal confidence
C21_Witness ==
    /\ pc = "done"
    /\ Len(parsedBoxes) = MaxBoxes
    /\ parsedBoxes[1].confidence < parsedBoxes[2].confidence
    /\ Len(nmsBoxes) = MaxBoxes
    /\ nmsBoxes[1].confidence = nmsBoxes[2].confidence
    /\ nmsBoxes[2].confidence > nmsBoxes[3].confidence

WellFormedShape ==
    /\ Len(dims) = 3
    /\ dims[3] = NumAttrs
    /\ dims[2] * dims[3] = Len(data)

\* attribute a (from 0) of row i (from 0) of a tensor of 11 attributes per row
RowAttr(i, a) == data[i * NumAttrs + a + 1]

RowsAbove == { i \in RowIndexes : RowProduct(i) > CONFIDENCE_THRESHOLD }

\* the k-th row, in ascending order, of those above the threshold
RowOf(k) ==
    CHOOSE i \in RowsAbove : Cardinality({ j \in RowsAbove : j < i }) = k - 1

Decoded == pc = "parsed" /\ WellFormedShape

\* C23: the classId of a detection is the lowest index that holds the
\* largest class score of its row, and its confidence is the objectness
\* times that score.
C23_ClassIsFirstArgmax ==
    Decoded =>
        \A k \in 1..Len(parsedBoxes) :
            k <= Cardinality(RowsAbove) =>
                LET i == RowOf(k)
                    c == parsedBoxes[k].classId
                IN /\ c \in 0..(Len(classNames) - 1)
                   /\ \A j \in 0..(Len(classNames) - 1) :
                         RowAttr(i, 5 + j) <= RowAttr(i, 5 + c)
                   /\ \A j \in 0..(c - 1) : RowAttr(i, 5 + j) < RowAttr(i, 5 + c)
                   /\ parsedBoxes[k].confidence = RowAttr(i, 4) * RowAttr(i, 5 + c)

\* C23 witness: a row whose largest class score is held by OK and by OUTER
\* has been decoded as OK
C23_Witness ==
    /\ Decoded
    /\ \E k \in 1..Len(parsedBoxes) :
          /\ k <= Cardinality(RowsAbove)
          /\ parsedBoxes[k].classId = 2
          /\ RowAttr(RowOf(k), 5 + 2) = RowAttr(RowOf(k), 5 + 3)

\* C24: a detection built from row (cx, cy, w, h) has x1 = cx - w/2,
\* y1 = cy - h/2, x2 = cx + w/2, y2 = cy + h/2, width = w and height = h, so
\* x2 - x1 = width and y2 - y1 = height (corners in twentieths, sizes in
\* tenths); the single row (0.5, 0.5, 0.2, 0.2), objectness 0.9, scores
\* [0,0,0.9,0,0,0] at shape (1,1,11) gives one detection, OK, with box
\* (0.4, 0.4, 0.6, 0.6).
C24_CornersFromCentre ==
    Decoded =>
        /\ \A k \in 1..Len(parsedBoxes) :
              k <= Cardinality(RowsAbove) =>
                  LET i == RowOf(k)
                      b == parsedBoxes[k]
                  IN /\ b.x1 = 2 * RowAttr(i, 0) - RowAttr(i, 2)
                     /\ b.y1 = 2 * RowAttr(i, 1) - RowAttr(i, 3)
                     /\ b.x2 = 2 * RowAttr(i, 0) + RowAttr(i, 2)
                     /\ b.y2 = 2 * RowAttr(i, 1) + RowAttr(i, 3)
                     /\ b.width = RowAttr(i, 2)
                     /\ b.height = RowAttr(i, 3)
                     /\ b.x2 - b.x1 = 2 * b.width
                     /\ b.y2 - b.y1 = 2 * b.height
        /\ data = Row(5, 5, 2, 2, 9, <<0, 0, 9, 0, 0, 0>>)
              => parsedBoxes = << [classId |-> 2, label |-> "OK",
                                   confidence |-> 81,
                                   x1 |-> 8, y1 |-> 8, x2 |-> 12, y2 |-> 12,
                                   width |-> 2, height |-> 2] >>

\* C24 witness: the single row of the example has been decoded
C24_Witness ==
    /\ Decoded
    /\ data = Row(5, 5, 2, 2, 9, <<0, 0, 9, 0, 0, 0>>)
    /\ dims = <<1, 1, 11>>
    /\ Len(parsedBoxes) = 1

\* C25: the decoder emits one detection for each row whose objectness times
\* largest class score is above 0.4 and none for any other row, in ascending
\* order of the rows.
C25_OneDetectionPerRowInOrder ==
    Decoded =>
        /\ Len(parsedBoxes) = Cardinality(RowsAbove)
        /\ \A k \in 1..Len(parsedBoxes) :
              k <= Cardinality(RowsAbove) =>
                  LET i == RowOf(k)
                      b == parsedBoxes[k]
                  IN /\ b.confidence = RowProduct(i)
                     /\ b.x1 + b.x2 = 4 * RowAttr(i, 0)
                     /\ b.y1 + b.y2 = 4 * RowAttr(i, 1)
                     /\ b.width = RowAttr(i, 2)
                     /\ b.height = RowAttr(i, 3)

\* C25 witness: of two different rows above the threshold the first is
\* decoded first, and of a row below and a row above only the second
C25_Witness ==
    /\ Decoded
    /\ dims[2] = 2
    /\ \/ /\ Len(parsedBoxes) = 2
          /\ parsedBoxes[1] # parsedBoxes[2]
          /\ parsedBoxes[1].confidence < parsedBoxes[2].confidence
       \/ /\ Len(parsedBoxes) = 1
          /\ RowsAbove = {1}

\* parseYOLOv5Output has thrown a DecodeError
DecodeFailed == pc = "failed"

\* C26 (as claimed): a call with a shape that has not three elements, or
\* not 11 attributes per row, or does not fit the length of the data, fails
\* with a DecodeError and returns no list of detections.
C26_MalformedShapeFails ==
    (pc # "start" /\ ~WellFormedShape) => DecodeFailed

Area(b) == (b.x2 - b.x1) * (b.y2 - b.y1)

ParsedPairs == (1..Len(parsedBoxes)) \X (1..Len(parsedBoxes))

\* C27: calculateIoU(a, b) and calculateIoU(b, a) are the same value for all
\* boxes a and b (the same number, or NaN both ways), and calculateIoU(a, a)
\* is 1 for every box a of positive area.
C27_IoUSymmetric ==
    pc = "parsed" =>
        /\ \A i \in 1..Len(parsedBoxes) : \A j \in (i + 1)..Len(parsedBoxes) :
              calculateIoU(parsedBoxes[i], parsedBoxes[j])
                  = calculateIoU(parsedBoxes[j], parsedBoxes[i])
        /\ \A i \in 1..Len(parsedBoxes) :
              Area(parsedBoxes[i]) > 0
                  => calculateIoU(parsedBoxes[i], parsedBoxes[i]) = Num(1, 1)

\* C27 witness: two boxes of different areas that overlap in part, with an
\* IoU that is a number strictly between 0 and 1
C27_Witness ==
    /\ pc = "parsed"
    /\ \E p \in ParsedPairs :
          LET a == parsedBoxes[p[1]]
              b == parsedBoxes[p[2]]
              iou == calculateIoU(a, b)
          IN /\ Area(a) > Area(b)
             /\ Area(b) > 0
             /\ iou.k = "num"
             /\ iou.n > 0
             /\ iou.n < iou.d

\* C28 (as claimed): calculateIoU returns 0 when the union area is 0, and
\* never NaN.
C28_ZeroUnionGivesZero ==
    pc = "parsed" =>
        \A p \in ParsedPairs :
            LET a == parsedBoxes[p[1]]
                b == parsedBoxes[p[2]]
            IN /\ ~isNaN(calculateIoU(a, b))
               /\ (Area(a) = 0 /\ Area(b) = 0) => calculateIoU(a, b) = Num(0, 1)

calibrationState ==
    <<calibrationMode, calibrationComplete, referenceSize,
      selectedReferenceBox, pixelsPerMM>>

\* C29: the handlers of the 'inference' and 'error' messages leave
\* calibrationMode, calibrationComplete, referenceSize, selectedReferenceBox
\* and pixelsPerMM as they are; these change only in the operations the
\* user triggers (size input, start, click, complete, reset, page load).
C29_InferenceKeepsCalibration ==
    [][ /\ lastOp'.op \in {"inference", "error", "loaded"}
            => calibrationState' = calibrationState
        /\ calibrationState' # calibrationState
            => lastOp'.op \in {"onChange", "startCalibration", "canvasClick",
                               "completeCalibration", "resetCalibration",
                               "reload"} ]_vars

\* C29 witness: an inference result has arrived while a detection was
\* selected for calibration, and has replaced the detections on screen
C29_Witness ==
    /\ lastOp.op = "inference"
    /\ calibrationMode
    /\ selectedReferenceBox # Null
    /\ selectedIndex = 0

CountIn(q, Test(_)) == Cardinality({ i \in 1..Len(q) : Test(q[i]) })

IsInferRequest(m) == m.type = "infer"

\* a reply to an 'infer' message: a result, or an error other than that of
\* the model load
IsInferReply(m) ==
    \/ m.type = "inference"
    \/ m.type = "error" /\ m.message # "Model load failed"

\* the 'infer' messages posted and not yet answered to the main thread:
\* queued at the worker, in session.run, or answered with the reply queued
UnansweredRequests ==
    CountIn(toWorker, IsInferRequest) + running + CountIn(toMain, IsInferReply)

\* C30 (as claimed): at most one 'infer' request is unanswered at any time:
\* the main thread posts none while an earlier one is queued, running or
\* answered with the reply on its way, and the worker runs one session.run at
\* a time.
C30_AtMostOneInFlight ==
    /\ UnansweredRequests <= 1
    /\ running <= 1

\* an 'error' message that answers an 'infer' whose session.run has failed
InferenceFailedHandled(op) == op.op = "error" /\ op.arg = "Inference failed"

\* C31 (as claimed): a failed frame is not fatal: when the main thread handles
\* the worker's error for one inference request while the render loop is
\* running, the loop keeps running, so that a later frame is submitted.
C31_FailedFrameNotFatal ==
    [][ (loopOn /\ InferenceFailedHandled(lastOp')) => loopOn' ]_vars

\* C32: every detection the decoder emits carries the label classNames[classId]
\* of the list BLOCK, INNER, OK, OUTER, SCAR, TEAR, and the label 'unknown'
\* when its classId is outside 0..5 (a row that carries more than 6 class
\* scores).
C32_LabelFromClassId ==
    pc = "parsed" =>
        \A k \in 1..Len(parsedBoxes) :
            LET b == parsedBoxes[k]
            IN IF b.classId \in 0..5
               THEN b.label = <<"BLOCK", "INNER", "OK", "OUTER", "SCAR",
                                "TEAR">>[b.classId + 1]
               ELSE b.label = "unknown"

\* C32 witness: a tensor declared with 7 class scores a row has been decoded
\* into a detection whose classId is 6
C32_Witness ==
    /\ pc = "parsed"
    /\ dims = <<1, 2, NumAttrs + 1>>
    /\ \E k \in 1..Len(parsedBoxes) : parsedBoxes[k].classId = 6

\* C33: every input detection that is not in the output of nonMaxSuppression
\* has the classId of an output detection whose confidence is at least its
\* own and whose IoU with it is above 0.5; a detection of the highest
\* confidence of a non-empty input is in the output.
C33_SuppressedAreCovered ==
    pc = "done"
        => LET inp == Marked(parsedBoxes)
               out == nonMaxSuppression(inp)
               kept == {out[k].id : k \in 1..Len(out)}
           IN /\ \A i \in (1..Len(inp)) \ kept :
                    \E k \in 1..Len(out) :
                        /\ out[k].classId = inp[i].classId
                        /\ out[k].confidence >= inp[i].confidence
                        /\ IoUAboveThreshold(out[k], inp[i])
              /\ Len(inp) > 0
                    => \E k \in 1..Len(out) :
                          \A i \in 1..Len(inp) :
                              out[k].confidence >= inp[i].confidence

\* C33 witness: a detection has been suppressed by one of higher confidence
\* that came after it in the input, and another detection of its class is in
\* the output too
C33_Witness ==
    /\ pc = "done"
    /\ Len(parsedBoxes) = MaxBoxes
    /\ Len(nmsBoxes) = 2
    /\ nmsBoxes[1].classId = nmsBoxes[2].classId
    /\ parsedBoxes[1].classId = nmsBoxes[1].classId
    /\ parsedBoxes[1].confidence < nmsBoxes[1].confidence
    /\ parsedBoxes[1] # nmsBoxes[2]

LastOf(q) == q[Len(q)]

\* C34: an 'infer' message that the worker handles while no inference is
\* running gets exactly one reply: the error 'Model not loaded' at once when
\* there is no session, and otherwise one 'inference' or one error
\* 'Inference failed' when session.run settles; the processing flag is true
\* exactly while session.run is under way and false after the reply, in the
\* success and in the failure case.
C34_OneReplyPerHandledInfer ==
    /\ [](processing <=> (running = 1))
    /\ [](running \in {0, 1})
    /\ [][ /\ (lastOp'.op = "workerInfer" /\ ~processing)
               => IF ~session
                  THEN /\ toMain' = Append(toMain, ErrorMsg("Model not loaded"))
                       /\ running' = 0
                       /\ ~processing'
                  ELSE /\ toMain' = toMain
                       /\ running' = 1
                       /\ processing'
           /\ lastOp'.op = "workerRun"
               => /\ running = 1
                  /\ running' = 0
                  /\ ~processing'
                  /\ Len(toMain') = Len(toMain) + 1
                  /\ SubSeq(toMain', 1, Len(toMain)) = toMain
                  /\ \/ LastOf(toMain').type = "inference"
                     \/ LastOf(toMain') = ErrorMsg("Inference failed")
           /\ lastOp'.op \notin {"workerInfer", "workerRun", "workerLoaded",
                                 "workerLoadFailed"}
               => /\ Len(toMain') <= Len(toMain)
                  /\ running' = running
                  /\ processing' = processing ]_vars

\* C34 witness: session.run has failed, the error is the one reply on its way
\* to the main thread, and the processing flag is false again
C34_Witness ==
    /\ lastOp.op = "workerRun"
    /\ ~lastOp.ok
    /\ session
    /\ ~processing
    /\ running = 0
    /\ toMain = <<ErrorMsg("Inference failed")>>

IsNotLoadedReply(m) == m = ErrorMsg("Model not loaded")

\* C36 (as claimed): status is 'ready' only when the model session exists,
\* an 'infer' message is posted only after the worker has reported 'loaded',
\* and the worker never answers 'Model not loaded'.
C36_InferOnlyAfterLoaded ==
    /\ status = "ready" => session
    /\ CountIn(toWorker, IsInferRequest) > 0 => session
    /\ CountIn(toMain, IsNotLoadedReply) = 0

\* C37 (as claimed): two consecutive 'infer' messages of the main thread are
\* more than INFERENCE_THROTTLE_MS apart, also when the render effect has
\* run again between them.
C37_InferThrottled ==
    [][ (toWorker' = Append(toWorker, InferMsg) /\ postedAt # -1)
            => now - postedAt > INFERENCE_THROTTLE_MS ]_vars

\* what the next animation frame draws (App copy.jsx:319-324)
drawnBoxes == IF Len(boxes) > 0 THEN boxes ELSE lastBoxes

\* C38 (as claimed): when an inference result empties the detection list
\* that the render loop has been drawing, the loop goes on drawing that last
\* non-empty list.
C38_FallbackToLastBoxes ==
    [][ (/\ toMain # <<>>
         /\ Head(toMain).type = "inference"
         /\ mainOnMessage
         /\ Len(boxes) > 0
         /\ lastBoxes = boxes
         /\ boxes' = <<>>)
            => drawnBoxes' = boxes ]_vars

====
